---- MODULE Spec2Model ----
(***************************************************************************)
(* Model of dashboard.py: the data pipeline of the marketing dashboard.    *)
(*   load_data                        reads the four CSV files or falls    *)
(*                                    back to generated sample data, then  *)
(*                                    parses dates and derives roas, ctr   *)
(*                                    and cpc per marketing row            *)
(*   main (filter step)               date / platform / state filter       *)
(*   calculate_kpis                   four scalar KPIs                     *)
(*   create_channel_chart             per-platform summary table           *)
(*   create_spend_distribution_chart  per-platform spend                   *)
(*   main (trend step)                per-date spend and revenue           *)
(*                                                                         *)
(* Tables (DataFrames) are sequences of records.  Column values are        *)
(* integers; the result of a float division is a Real record, which is     *)
(* either an exact reduced fraction or one of inf, -inf, nan, as numpy     *)
(* float division produces them.  Dates are day numbers counted from       *)
(* 2025-05-15, so that 2025-05-16 (the first sample date) is day 1.        *)
(***************************************************************************)
EXTENDS Integers, Sequences, FiniteSets, TLC

VARIABLES
    pc,                  \* position in the pipeline
    files,               \* the four CSV files in the working directory
    marketing_df,        \* load_data's first result
    business_df,         \* load_data's second result
    source,              \* "files" or "sample": where the returned data came from
    warned,              \* TRUE once st.warning was issued
    date_range,          \* sidebar date input: <<start, end>> or <<single>>
    platforms,           \* sidebar platform multiselect
    states,              \* sidebar state multiselect
    filtered_marketing,
    filtered_business,
    kpis,                \* calculate_kpis's result
    stats,               \* create_channel_chart's summary table
    spend_by_platform,   \* create_spend_distribution_chart's grouped table
    daily_data           \* the trend table of main

vars == <<pc, files, marketing_df, business_df, source, warned, date_range,
          platforms, states, filtered_marketing, filtered_business, kpis,
          stats, spend_by_platform, daily_data>>

-----------------------------------------------------------------------------
(* Bounds of the model                                                     *)

\* most rows of a marketing table that is drawn as an input
MaxRows == 2
\* number of sample days generated by the fallback (periods=120 in the code)
SynthPeriods == 2

-----------------------------------------------------------------------------
(* Float arithmetic                                                        *)

Abs(x) == IF x < 0 THEN -x ELSE x

RECURSIVE GCD(_, _)
GCD(a, b) == IF b = 0 THEN a ELSE GCD(b, a % b)

\* the float n/d for d # 0, as a fraction in lowest terms with d > 0
Num(n, d) ==
    LET g == GCD(Abs(n), Abs(d))
        s == IF d < 0 THEN -1 ELSE 1
    IN  [kind |-> "num", n |-> (s * n) \div g, d |-> Abs(d) \div g]

NaN    == [kind |-> "nan", n |-> 0, d |-> 0]
PosInf == [kind |-> "inf", n |-> 1, d |-> 0]
NegInf == [kind |-> "inf", n |-> -1, d |-> 0]
Zero   == Num(0, 1)

\* numpy / pandas float division of two numbers: x/0 is inf, -inf or nan
FDiv(n, d) ==
    IF d # 0 THEN Num(n, d)
    ELSE IF n > 0 THEN PosInf
    ELSE IF n < 0 THEN NegInf
    ELSE NaN

\* float times a positive integer
FMul(q, k) == IF q.kind = "num" THEN Num(q.n * k, q.d) ELSE q

\* float plus float (finite operands)
FAdd(p, q) == Num(p.n * q.d + q.n * p.d, p.d * q.d)

IsFinite(q) == q.kind = "num"

\* Series.replace(0, 1) on one cell
Replace0By1(x) == IF x = 0 THEN 1 ELSE x

-----------------------------------------------------------------------------
(* Sequence helpers                                                        *)

Range(s) == {s[i] : i \in DOMAIN s}

RECURSIVE SumCol(_, _)
\* df[col].sum()
SumCol(df, col) ==
    IF df = <<>> THEN 0 ELSE Head(df)[col] + SumCol(Tail(df), col)

RECURSIVE SortedSeq(_)
\* the numbers of a finite set in ascending order
SortedSeq(S) ==
    IF S = {} THEN <<>>
    ELSE LET m == CHOOSE x \in S : \A y \in S : x <= y
         IN  <<m>> \o SortedSeq(S \ {m})

-----------------------------------------------------------------------------
(* Columns                                                                 *)

\* the platforms and their files, in the order load_data reads them
PlatformFiles == <<[platform |-> "Facebook", file |-> "Facebook.csv"],
                   [platform |-> "Google",   file |-> "Google.csv"],
                   [platform |-> "TikTok",   file |-> "TikTok.csv"]>>
BusinessFile == "Business.csv"
FileNames == {PlatformFiles[i].file : i \in DOMAIN PlatformFiles} \cup {BusinessFile}
ReadOrder == [i \in 1..4 |-> IF i <= 3 THEN PlatformFiles[i].file ELSE BusinessFile]
PlatformNames == {PlatformFiles[i].platform : i \in DOMAIN PlatformFiles}

\* position of a platform name in string order (Facebook < Google < TikTok)
PlatformRank(p) == CHOOSE i \in DOMAIN PlatformFiles : PlatformFiles[i].platform = p

\* text of the date cells of the CSV files
DateCells == {"2025-06-01", "2025-06-02", "not-a-date"}
\* pd.to_datetime on one cell: the day number, or 0 when the text is no date
ParseDate(cell) ==
    CASE cell = "2025-06-01" -> 17
      [] cell = "2025-06-02" -> 18
      [] OTHER -> 0
Parsable(cell) == ParseDate(cell) # 0
CsvDays == {ParseDate(c) : c \in {c \in DateCells : Parsable(c)}}

\* the numeric cells of a marketing row: every combination of a zero and a
\* non-zero numerator with a zero and a non-zero denominator occurs for each
\* of roas, ctr and cpc, plus one row with a negative spend (a credit)
MetricCells ==
    { [impression |-> 1000, clicks |-> 10, spend |-> 100,  attributed_revenue |-> 300],
      [impression |-> 0,    clicks |-> 0,  spend |-> 0,    attributed_revenue |-> 0],
      [impression |-> 0,    clicks |-> 10, spend |-> 0,    attributed_revenue |-> 300],
      [impression |-> 1000, clicks |-> 0,  spend |-> 100,  attributed_revenue |-> 0],
      [impression |-> 1000, clicks |-> 10, spend |-> -100, attributed_revenue |-> 300] }
TypicalCells == [impression |-> 1000, clicks |-> 10, spend |-> 100, attributed_revenue |-> 300]

StateNames == {"NY", "CA"}

RawRow(date, platform, state, m) ==
    [date |-> date, platform |-> platform, state |-> state,
     impression |-> m.impression, clicks |-> m.clicks, spend |-> m.spend,
     attributed_revenue |-> m.attributed_revenue]

\* df['platform'] = platform on the rows read from one file
TagPlatform(rows, platform) ==
    [i \in DOMAIN rows |->
        [date |-> rows[i].date, platform |-> platform, state |-> rows[i].state,
         impression |-> rows[i].impression, clicks |-> rows[i].clicks,
         spend |-> rows[i].spend,
         attributed_revenue |-> rows[i].attributed_revenue]]

-----------------------------------------------------------------------------
(* load_data                                                               *)

\* np.random: the n-th draw of the generator started from seed picks one of
\* the listed values of the drawn range
Draw(seed, n, choices) == choices[((seed + n + (n \div 4)) % Len(choices)) + 1]
Seeds == {0, 1, 2}

\* the sample marketing table: one row per date and platform, dates outermost
SampleMarketing(seed) ==
    [k \in 1..(SynthPeriods * 3) |->
        LET date     == ((k - 1) \div 3) + 1
            platform == PlatformFiles[((k - 1) % 3) + 1].platform
            n        == (k - 1) * 6
            impressions == Draw(seed, n + 1, <<50000, 199999>>)
            clicks      == Draw(seed, n + 2, <<1000, 4999>>)
            spend       == Draw(seed, n + 3, <<500, 2998>>)
            state       == Draw(seed, n + 5, <<"NY", "CA", "TX", "FL">>)
            twice_mult  == Draw(seed, n + 6, <<3, 7>>)
        IN  [date |-> date, platform |-> platform, state |-> state,
             impression |-> impressions, clicks |-> clicks, spend |-> spend,
             attributed_revenue |-> (spend * twice_mult) \div 2]]

\* the sample business table: one row per date
SampleBusiness(seed) ==
    [k \in 1..SynthPeriods |->
        [date |-> k,
         new_customers |-> Draw(seed, SynthPeriods * 18 + (k - 1) * 4 + 3, <<40, 119>>)]]

\* DerivedMetrics without the replace(0, 1) on the denominators
DerivedMetricsUnguarded(r) ==
    [roas |-> FDiv(r.attributed_revenue, r.spend),
     ctr  |-> FMul(FDiv(r.clicks, r.impression), 100),
     cpc  |-> FDiv(r.spend, r.clicks)]

\* DerivedMetrics with the result clamped to 0 on a zero denominator
DerivedMetricsClamped(r) ==
    [roas |-> IF r.spend = 0 THEN Zero ELSE FDiv(r.attributed_revenue, r.spend),
     ctr  |-> IF r.impression = 0 THEN Zero ELSE FMul(FDiv(r.clicks, r.impression), 100),
     cpc  |-> IF r.clicks = 0 THEN Zero ELSE FDiv(r.spend, r.clicks)]

\* lines 87-89: the three derived columns of one marketing row
DerivedMetrics(r) ==
    [roas |-> FDiv(r.attributed_revenue, Replace0By1(r.spend)),
     ctr  |-> FMul(FDiv(r.clicks, Replace0By1(r.impression)), 100),
     cpc  |-> FDiv(r.spend, Replace0By1(r.clicks))]

\* one marketing row with its date converted and its derived columns added
NormalRow(r, date) ==
    LET m == DerivedMetrics(r)
    IN  [date |-> date, platform |-> r.platform, state |-> r.state,
         impression |-> r.impression, clicks |-> r.clicks, spend |-> r.spend,
         attributed_revenue |-> r.attributed_revenue,
         roas |-> m.roas, ctr |-> m.ctr, cpc |-> m.cpc]

\* lines 36-43: the concatenation of the three tagged channel tables
ReadMarketing(fs) ==
    TagPlatform(fs[PlatformFiles[1].file].rows, PlatformFiles[1].platform)
    \o TagPlatform(fs[PlatformFiles[2].file].rows, PlatformFiles[2].platform)
    \o TagPlatform(fs[PlatformFiles[3].file].rows, PlatformFiles[3].platform)

\* index in ReadOrder of the first file whose read fails, 0 when all succeed
FirstFailure(fs) ==
    LET bad == {i \in DOMAIN ReadOrder : fs[ReadOrder[i]].status # "ok"}
    IN  IF bad = {} THEN 0 ELSE CHOOSE i \in bad : \A j \in bad : i <= j

\* Caught for a handler that catches every exception
CaughtAny(status) == status \in {"missing", "unparsable"}

\* the exceptions the try block of load_data handles
Caught(status) == status = "missing"

Raised == [outcome |-> "raised", marketing |-> <<>>, business |-> <<>>,
           source |-> "none", warned |-> FALSE]

\* lines 82-91 on tables whose date column holds parsed dates already
Finish(marketing, business, src, w) ==
    [outcome |-> "returned",
     marketing |-> [i \in DOMAIN marketing |-> NormalRow(marketing[i], marketing[i].date)],
     business |-> business, source |-> src, warned |-> w]

\* lines 82-91 on the tables read from the files: pd.to_datetime raises on
\* a cell that is no date
FinishRead(marketing, business) ==
    IF \E i \in DOMAIN marketing : ~Parsable(marketing[i].date) THEN Raised
    ELSE IF \E i \in DOMAIN business : ~Parsable(business[i].date) THEN Raised
    ELSE Finish([i \in DOMAIN marketing |->
                    [marketing[i] EXCEPT !.date = ParseDate(marketing[i].date)]],
                [i \in DOMAIN business |->
                    [business[i] EXCEPT !.date = ParseDate(business[i].date)]],
                "files", FALSE)

\* load_data(), for the files fs and the generator state seed
load_data(fs, seed) ==
    LET f == FirstFailure(fs)
    IN  IF f = 0 THEN FinishRead(ReadMarketing(fs), fs[BusinessFile].rows)
        ELSE IF Caught(fs[ReadOrder[f]].status)
             THEN Finish(SampleMarketing(seed), SampleBusiness(seed), "sample", TRUE)
        ELSE Raised

-----------------------------------------------------------------------------
(* The files load_data may find                                            *)

Statuses == {"ok", "missing", "unparsable"}

\* a row of a channel file (the platform column is added by load_data)
FileRows ==
    {[date |-> c, state |-> "NY", impression |-> m.impression, clicks |-> m.clicks,
      spend |-> m.spend, attributed_revenue |-> m.attributed_revenue] :
        c \in DateCells, m \in MetricCells}
TypicalFileRow ==
    [date |-> "2025-06-01", state |-> "NY", impression |-> TypicalCells.impression,
     clicks |-> TypicalCells.clicks, spend |-> TypicalCells.spend,
     attributed_revenue |-> TypicalCells.attributed_revenue]

RECURSIVE BusinessTables(_, _)
\* the business tables with at most one row per listed date, in that order
BusinessTables(dates, customers) ==
    IF dates = <<>> THEN {<<>>}
    ELSE LET rest == BusinessTables(Tail(dates), customers)
         IN  rest \cup {<<[date |-> Head(dates), new_customers |-> n]>> \o t :
                            n \in customers, t \in rest}

FileBusinessTables == BusinessTables(<<"2025-06-01", "2025-06-02", "not-a-date">>, {5})

\* how many rows each channel file holds: at most MaxRows rows in all
RowCounts == {k \in [1..3 -> 0..MaxRows] : k[1] + k[2] + k[3] <= MaxRows}

FileSystem(st, c1, c2, c3, b) ==
    [f \in FileNames |->
        [status |-> st[f],
         rows   |-> IF st[f] # "ok" THEN <<>>
                    ELSE IF f = PlatformFiles[1].file THEN c1
                    ELSE IF f = PlatformFiles[2].file THEN c2
                    ELSE IF f = PlatformFiles[3].file THEN c3
                    ELSE b]]

AllOk(st) == \A f \in FileNames : st[f] = "ok"

-----------------------------------------------------------------------------
(* State machine of load_data                                              *)

NoKpis == [total_spend |-> 0, total_attributed_revenue |-> 0,
           overall_roas |-> Zero, blended_cac |-> Zero]

NotRun ==
    /\ date_range = <<>> /\ platforms = {} /\ states = {}
    /\ filtered_marketing = <<>> /\ filtered_business = <<>>
    /\ kpis = NoKpis /\ stats = <<>>
    /\ spend_by_platform = <<>> /\ daily_data = <<>>

InitLoad ==
    /\ pc = "start"
    /\ files = [f \in FileNames |-> [status |-> "missing", rows |-> <<>>]]
    /\ marketing_df = <<>> /\ business_df = <<>>
    /\ source = "none" /\ warned = FALSE
    /\ NotRun

Loaded(fs, seed) ==
    LET out == load_data(fs, seed)
    IN  /\ files' = fs
        /\ pc' = IF out.outcome = "returned" THEN "loaded" ELSE "raised"
        /\ marketing_df' = out.marketing
        /\ business_df' = out.business
        /\ source' = out.source
        /\ warned' = out.warned
        /\ UNCHANGED <<date_range, platforms, states, filtered_marketing,
                       filtered_business, kpis, stats, spend_by_platform, daily_data>>

\* load_data runs and finds all four files readable
LoadReadable ==
    /\ pc = "start"
    /\ \E k \in RowCounts :
         \E c1 \in [1..k[1] -> FileRows], c2 \in [1..k[2] -> FileRows],
            c3 \in [1..k[3] -> FileRows], b \in FileBusinessTables :
            Loaded(FileSystem([f \in FileNames |-> "ok"], c1, c2, c3, b), 0)

\* load_data runs and at least one file is missing or cannot be parsed
LoadDefective ==
    /\ pc = "start"
    /\ \E st \in [FileNames -> Statuses] :
         /\ ~AllOk(st)
         /\ \E c1, c2, c3 \in {<<>>, <<TypicalFileRow>>}, seed \in Seeds :
               Loaded(FileSystem(st, c1, c2, c3, <<>>), seed)

NextLoad == LoadReadable \/ LoadDefective

SpecLoad == InitLoad /\ [][NextLoad]_vars

-----------------------------------------------------------------------------
(* The filter step of main                                                 *)

\* the marketing mask of lines 175-180 with the end date excluded
FilterMarketingBeforeEnd(df, start_date, end_date, plats, sts) ==
    SelectSeq(df, LAMBDA r : /\ r.date >= start_date
                             /\ r.date < end_date
                             /\ r.platform \in plats
                             /\ r.state \in sts)

\* lines 175-180
FilterMarketing(df, start_date, end_date, plats, sts) ==
    SelectSeq(df, LAMBDA r : /\ r.date >= start_date
                             /\ r.date <= end_date
                             /\ r.platform \in plats
                             /\ r.state \in sts)

\* lines 181-184
FilterBusiness(df, start_date, end_date) ==
    SelectSeq(df, LAMBDA r : r.date >= start_date /\ r.date <= end_date)

\* Series.unique() of a column, as the set of options of a multiselect
Unique(df, col) == {df[i][col] : i \in DOMAIN df}

\* what st.sidebar.date_input may return: a (start, end) pair, or a single
\* date while the user is still picking the end of the range
DateRanges ==
    {dr \in CsvDays \X CsvDays : dr[1] <= dr[2]} \cup {<<s>> : s \in CsvDays}

\* lines 172-186 of main, for the widget values dr, plats, sts
FilterData ==
    /\ pc = "loaded"
    /\ \E dr \in DateRanges, plats \in SUBSET Unique(marketing_df, "platform"),
          sts \in SUBSET Unique(marketing_df, "state") :
         /\ date_range' = dr /\ platforms' = plats /\ states' = sts
         /\ IF Len(dr) = 2
            THEN /\ filtered_marketing' =
                        FilterMarketing(marketing_df, dr[1], dr[2], plats, sts)
                 /\ filtered_business' = FilterBusiness(business_df, dr[1], dr[2])
            ELSE /\ filtered_marketing' = marketing_df
                 /\ filtered_business' = business_df
    /\ pc' = "filtered"
    /\ UNCHANGED <<files, marketing_df, business_df, source, warned, kpis, stats,
                   spend_by_platform, daily_data>>

\* whether the platforms of a table occur in the order of concatenation
PlatformBlocks(t) ==
    \A i, j \in DOMAIN t : i < j => PlatformRank(t[i].platform) <= PlatformRank(t[j].platform)

\* marketing tables as load_data returns them from the files: at most MaxRows
\* rows, the rows of each platform together
LoadedTables(dates, sts, cells) ==
    LET rows == {NormalRow(RawRow(d, p, st, m), d) :
                    d \in dates, p \in PlatformNames, st \in sts, m \in cells}
    IN  {t \in UNION {[1..n -> rows] : n \in 0..MaxRows} : PlatformBlocks(t)}

\* main reaches the filter step with a non-empty marketing table only: the
\* date input of line 155 needs the smallest and the largest date of it
InitFilter ==
    /\ pc = "loaded"
    /\ files = [f \in FileNames |-> [status |-> "ok", rows |-> <<>>]]
    /\ marketing_df \in LoadedTables(CsvDays, StateNames, {TypicalCells}) \ {<<>>}
    /\ business_df \in BusinessTables(SortedSeq(CsvDays), {5})
    /\ source = "files" /\ warned = FALSE
    /\ NotRun

NextFilter == FilterData

SpecFilter == InitFilter /\ [][NextFilter]_vars

-----------------------------------------------------------------------------
(* calculate_kpis                                                          *)

\* calculate_kpis without the early return and with the guards >= 0
calculate_kpis_guard_ge(marketing, business) ==
    LET total_spend == SumCol(marketing, "spend")
        total_attributed_revenue == SumCol(marketing, "attributed_revenue")
        total_new_customers ==
            IF business # <<>> THEN SumCol(business, "new_customers") ELSE 0
    IN  [total_spend |-> total_spend,
         total_attributed_revenue |-> total_attributed_revenue,
         overall_roas |-> IF total_spend >= 0
                          THEN FDiv(total_attributed_revenue, total_spend) ELSE Zero,
         blended_cac |-> IF total_new_customers >= 0
                         THEN FDiv(total_spend, total_new_customers) ELSE Zero]

\* calculate_kpis with the guard of blended_cac applied to the spend
calculate_kpis_wrong_guard(marketing, business) ==
    LET total_spend == SumCol(marketing, "spend")
        total_attributed_revenue == SumCol(marketing, "attributed_revenue")
        total_new_customers ==
            IF business # <<>> THEN SumCol(business, "new_customers") ELSE 0
    IN  IF marketing = <<>> THEN
            [total_spend |-> 0, total_attributed_revenue |-> 0,
             overall_roas |-> Zero, blended_cac |-> Zero]
        ELSE
            [total_spend |-> total_spend,
             total_attributed_revenue |-> total_attributed_revenue,
             overall_roas |-> IF total_spend > 0
                              THEN FDiv(total_attributed_revenue, total_spend) ELSE Zero,
             blended_cac |-> IF total_spend > 0
                             THEN FDiv(total_spend, total_new_customers) ELSE Zero]

\* lines 93-107
calculate_kpis(marketing, business) ==
    LET total_spend == SumCol(marketing, "spend")
        total_attributed_revenue == SumCol(marketing, "attributed_revenue")
        total_new_customers ==
            IF business # <<>> THEN SumCol(business, "new_customers") ELSE 0
    IN  IF marketing = <<>> THEN
            [total_spend |-> 0, total_attributed_revenue |-> 0,
             overall_roas |-> Zero, blended_cac |-> Zero]
        ELSE
            [total_spend |-> total_spend,
             total_attributed_revenue |-> total_attributed_revenue,
             overall_roas |-> IF total_spend > 0
                              THEN FDiv(total_attributed_revenue, total_spend) ELSE Zero,
             blended_cac |-> IF total_new_customers > 0
                             THEN FDiv(total_spend, total_new_customers) ELSE Zero]

\* line 189 of main
CalculateKpis ==
    /\ pc = "filtered"
    /\ kpis' = calculate_kpis(filtered_marketing, filtered_business)
    /\ pc' = "kpis"
    /\ UNCHANGED <<files, marketing_df, business_df, source, warned, date_range,
                   platforms, states, filtered_marketing, filtered_business, stats,
                   spend_by_platform, daily_data>>

-----------------------------------------------------------------------------
(* groupby and the grouped tables                                          *)

\* the sort key of a group key: dates are numbers, platform names compare
\* as strings
SortKey(col, v) == IF col = "platform" THEN PlatformRank(v) ELSE v

RECURSIVE FirstSeen(_, _, _)
\* the distinct values of a column in the order of their first appearance
FirstSeen(df, col, seen) ==
    IF df = <<>> THEN <<>>
    ELSE IF Head(df)[col] \in seen THEN FirstSeen(Tail(df), col, seen)
    ELSE <<Head(df)[col]>> \o FirstSeen(Tail(df), col, seen \cup {Head(df)[col]})

\* the group keys of a groupby(col, sort=False)
GroupKeysUnsorted(df, col) == FirstSeen(df, col, {})

RECURSIVE SortedKeys(_, _)
SortedKeys(S, col) ==
    IF S = {} THEN <<>>
    ELSE LET m == CHOOSE x \in S : \A y \in S : SortKey(col, x) <= SortKey(col, y)
         IN  <<m>> \o SortedKeys(S \ {m}, col)

\* the group keys of df.groupby(col): the distinct values, sorted
GroupKeys(df, col) == SortedKeys(Unique(df, col), col)

\* the rows of one group
Group(df, col, key) == SelectSeq(df, LAMBDA r : r[col] = key)

RECURSIVE FSum(_, _)
\* the float sum of a column of floats
FSum(df, col) == IF df = <<>> THEN Zero ELSE FAdd(Head(df)[col], FSum(Tail(df), col))

\* the float mean of a column of floats of a non-empty table
FMean(df, col) == LET t == FSum(df, col) IN Num(t.n, t.d * Len(df))

\* create_channel_chart with roas and ctr aggregated as the mean of the rows
create_channel_chart_mean(marketing) ==
    LET keys == GroupKeys(marketing, "platform")
    IN  IF marketing = <<>> THEN <<>> ELSE
        [g \in DOMAIN keys |->
            LET rows == Group(marketing, "platform", keys[g])
            IN  [platform |-> keys[g],
                 spend |-> SumCol(rows, "spend"),
                 attributed_revenue |-> SumCol(rows, "attributed_revenue"),
                 clicks |-> SumCol(rows, "clicks"),
                 impression |-> SumCol(rows, "impression"),
                 roas |-> FMean(rows, "roas"),
                 ctr |-> FMean(rows, "ctr")]]

\* create_channel_chart with 'first' in place of 'sum' for the spend
create_channel_chart_first(marketing) ==
    LET keys == GroupKeys(marketing, "platform")
    IN  IF marketing = <<>> THEN <<>> ELSE
        [g \in DOMAIN keys |->
            LET rows == Group(marketing, "platform", keys[g])
                spend == Head(rows).spend
            IN  [platform |-> keys[g],
                 spend |-> spend,
                 attributed_revenue |-> SumCol(rows, "attributed_revenue"),
                 clicks |-> SumCol(rows, "clicks"),
                 impression |-> SumCol(rows, "impression"),
                 roas |-> FDiv(SumCol(rows, "attributed_revenue"), spend),
                 ctr |-> FMul(FDiv(SumCol(rows, "clicks"), SumCol(rows, "impression")), 100)]]

\* lines 109-129: the stats table create_channel_chart returns; the empty
\* table when the figure is None
create_channel_chart(marketing) ==
    LET keys == GroupKeys(marketing, "platform")
    IN  IF marketing = <<>> THEN <<>> ELSE
        [g \in DOMAIN keys |->
            LET rows == Group(marketing, "platform", keys[g])
                spend == SumCol(rows, "spend")
                attributed_revenue == SumCol(rows, "attributed_revenue")
                clicks == SumCol(rows, "clicks")
                impression == SumCol(rows, "impression")
            IN  [platform |-> keys[g],
                 spend |-> spend,
                 attributed_revenue |-> attributed_revenue,
                 clicks |-> clicks,
                 impression |-> impression,
                 roas |-> FDiv(attributed_revenue, spend),
                 ctr |-> FMul(FDiv(clicks, impression), 100)]]

\* line 136: marketing_df.groupby('platform')['spend'].sum().reset_index()
create_spend_distribution_chart(marketing) ==
    LET keys == GroupKeys(marketing, "platform")
    IN  [g \in DOMAIN keys |->
            [platform |-> keys[g],
             spend |-> SumCol(Group(marketing, "platform", keys[g]), "spend")]]

\* lines 221-224: the daily trend table
daily_trend(marketing) ==
    LET keys == GroupKeys(marketing, "date")
    IN  [g \in DOMAIN keys |->
            LET rows == Group(marketing, "date", keys[g])
            IN  [date |-> keys[g],
                 spend |-> SumCol(rows, "spend"),
                 attributed_revenue |-> SumCol(rows, "attributed_revenue")]]

\* line 205 of main
CreateChannelChart ==
    /\ pc = "kpis"
    /\ stats' = create_channel_chart(filtered_marketing)
    /\ pc' = "charted"
    /\ UNCHANGED <<files, marketing_df, business_df, source, warned, date_range,
                   platforms, states, filtered_marketing, filtered_business, kpis,
                   spend_by_platform, daily_data>>

\* lines 207-214 of main: only when create_channel_chart returned a figure
CreateSpendDistributionChart ==
    /\ pc = "charted"
    /\ filtered_marketing # <<>>
    /\ spend_by_platform' = create_spend_distribution_chart(filtered_marketing)
    /\ pc' = "spend_charted"
    /\ UNCHANGED <<files, marketing_df, business_df, source, warned, date_range,
                   platforms, states, filtered_marketing, filtered_business, kpis,
                   stats, daily_data>>

\* lines 219-228 of main
DailyTrend ==
    /\ pc = "spend_charted"
    /\ filtered_marketing # <<>>
    /\ daily_data' = daily_trend(filtered_marketing)
    /\ pc' = "trended"
    /\ UNCHANGED <<files, marketing_df, business_df, source, warned, date_range,
                   platforms, states, filtered_marketing, filtered_business, kpis,
                   stats, spend_by_platform>>

\* the filtered tables main hands to lines 188-228: any selection of rows
\* of a loaded table, in the order of that table
InitRender ==
    /\ pc = "filtered"
    /\ files = [f \in FileNames |-> [status |-> "ok", rows |-> <<>>]]
    /\ marketing_df = <<>> /\ business_df = <<>>
    /\ source = "files" /\ warned = FALSE
    /\ date_range = <<>> /\ platforms = {} /\ states = {}
    /\ filtered_marketing \in LoadedTables(CsvDays, {"NY"}, MetricCells)
    /\ filtered_business \in BusinessTables(SortedSeq(CsvDays), {0, 5})
    /\ kpis = NoKpis /\ stats = <<>>
    /\ spend_by_platform = <<>> /\ daily_data = <<>>

NextRender ==
    CalculateKpis \/ CreateChannelChart \/ CreateSpendDistributionChart \/ DailyTrend

SpecRender == InitRender /\ [][NextRender]_vars

-----------------------------------------------------------------------------
(* Properties of load_data                                                 *)

MarketingRows == Range(marketing_df)

\* C1 as stated: after load_data, every marketing row with spend = 0 has
\* roas = 0, every row with impression = 0 has ctr = 0 and every row with
\* clicks = 0 has cpc = 0, whatever the numerators are.
C1_ZeroDenominatorGivesZero ==
    pc = "loaded" =>
        \A r \in MarketingRows :
            /\ r.spend = 0 => r.roas = Zero
            /\ r.impression = 0 => r.ctr = Zero
            /\ r.clicks = 0 => r.cpc = Zero

\* C1 as amended: after load_data, every derived field of every marketing
\* row is a finite number, and roas, ctr, cpc are 0 on a zero denominator
\* when the numerator of that row is 0 as well.
C1_ZeroOverZeroIsZero ==
    pc = "loaded" =>
        \A r \in MarketingRows :
            /\ IsFinite(r.roas) /\ IsFinite(r.ctr) /\ IsFinite(r.cpc)
            /\ (r.spend = 0 /\ r.attributed_revenue = 0) => r.roas = Zero
            /\ (r.impression = 0 /\ r.clicks = 0) => r.ctr = Zero
            /\ (r.clicks = 0 /\ r.spend = 0) => r.cpc = Zero

C1_Witness ==
    /\ pc = "loaded" /\ source = "files"
    /\ \E r \in MarketingRows :
         /\ r.spend = 0 /\ r.attributed_revenue = 0 /\ r.impression = 0 /\ r.clicks = 0
         /\ r.roas = Zero /\ r.ctr = Zero /\ r.cpc = Zero

\* the index of the first file that fails to read, as load_data_step left it
Failed == FirstFailure(files)
FailedStatus == files[ReadOrder[Failed]].status
BadDateRead ==
    \E f \in FileNames : \E i \in DOMAIN files[f].rows : ~Parsable(files[f].rows[i].date)
RowsOnDisk ==
    Len(files[PlatformFiles[1].file].rows) + Len(files[PlatformFiles[2].file].rows)
        + Len(files[PlatformFiles[3].file].rows)

\* the complete sample dataset: one marketing row per sample date and
\* platform, one business row per sample date, nothing read from a file
CompleteSample ==
    /\ source = "sample" /\ warned
    /\ Len(marketing_df) = SynthPeriods * Cardinality(PlatformNames)
    /\ \A d \in 1..SynthPeriods : \A p \in PlatformNames :
          Cardinality({i \in DOMAIN marketing_df :
                         marketing_df[i].date = d /\ marketing_df[i].platform = p}) = 1
    /\ Len(business_df) = SynthPeriods
    /\ \A d \in 1..SynthPeriods :
          Cardinality({i \in DOMAIN business_df : business_df[i].date = d}) = 1

C8_ReplaceThenDivide ==
    pc = "loaded" =>
        \A r \in MarketingRows :
            /\ r.spend = 0 => r.roas = Num(r.attributed_revenue, 1)
            /\ r.clicks = 0 => r.cpc = Num(r.spend, 1)
            /\ r.impression = 0 => r.ctr = Num(100 * r.clicks, 1)
            /\ r.spend = 0 => (r.roas = Zero <=> r.attributed_revenue = 0)
            /\ r.clicks = 0 => (r.cpc = Zero <=> r.spend = 0)
            /\ r.impression = 0 => (r.ctr = Zero <=> r.clicks = 0)
            /\ r.spend # 0 => r.roas = Num(r.attributed_revenue, r.spend)
            /\ r.clicks # 0 => r.cpc = Num(r.spend, r.clicks)
            /\ r.impression # 0 => r.ctr = Num(100 * r.clicks, r.impression)

C8_Witness ==
    /\ pc = "loaded" /\ source = "files"
    /\ \E r \in MarketingRows :
         /\ r.spend = 0 /\ r.attributed_revenue = 300 /\ r.roas = Num(300, 1)
         /\ r.impression = 0 /\ r.clicks = 10 /\ r.ctr = Num(1000, 1)
    /\ \E r \in MarketingRows :
         /\ r.clicks = 0 /\ r.spend = 100 /\ r.cpc = Num(100, 1)

-----------------------------------------------------------------------------
(* Properties of the filter step                                           *)

\* the indexes of the marketing rows that the stated filter keeps
KeptMarketing ==
    {i \in DOMAIN marketing_df :
        /\ date_range[1] <= marketing_df[i].date
        /\ marketing_df[i].date <= date_range[2]
        /\ marketing_df[i].platform \in platforms
        /\ marketing_df[i].state \in states}
KeptBusiness ==
    {i \in DOMAIN business_df :
        date_range[1] <= business_df[i].date /\ business_df[i].date <= date_range[2]}

\* sub is df restricted to the indexes in kept, in the order of df
IsSelection(sub, df, kept) ==
    LET idx == SortedSeq(kept)
    IN  /\ Len(sub) = Len(idx)
        /\ \A j \in DOMAIN sub : sub[j] = df[idx[j]]

\* C3: with a (start, end) pair the filter keeps exactly the marketing rows
\* with start <= date <= end, platform selected and state selected, and
\* exactly the business rows with start <= date <= end, unaltered and in
\* their order.
C3_FilterKeepsExactlyMatching ==
    (pc = "filtered" /\ Len(date_range) = 2) =>
        /\ IsSelection(filtered_marketing, marketing_df, KeptMarketing)
        /\ IsSelection(filtered_business, business_df, KeptBusiness)

C3_Witness ==
    /\ pc = "filtered" /\ date_range = <<17, 17>>
    /\ \E i \in DOMAIN marketing_df : marketing_df[i].date = 18
    /\ \E i \in DOMAIN business_df : business_df[i].date = 18
    /\ Len(filtered_marketing) = 1 /\ filtered_marketing[1].date = 17
    /\ Len(filtered_business) = 1 /\ filtered_business[1].date = 17

-----------------------------------------------------------------------------
(* Properties of calculate_kpis and the grouped tables                     *)

RECURSIVE TotalOver(_, _, _)
\* the total of a column over the rows with the given indexes
TotalOver(df, col, idx) ==
    IF idx = {} THEN 0
    ELSE LET i == CHOOSE i \in idx : TRUE
         IN  df[i][col] + TotalOver(df, col, idx \ {i})
Total(df, col) == TotalOver(df, col, DOMAIN df)

KpisDone == pc \in {"kpis", "charted", "spend_charted", "trended"}
ChartDone == pc \in {"charted", "spend_charted", "trended"}

\* C4: on an empty marketing table calculate_kpis returns four zeros, for
\* every business table.
C4_EmptyMarketingAllZero ==
    (KpisDone /\ filtered_marketing = <<>>) =>
        /\ kpis.total_spend = 0 /\ kpis.total_attributed_revenue = 0
        /\ kpis.overall_roas = Zero /\ kpis.blended_cac = Zero

C4_Witness ==
    /\ KpisDone /\ filtered_marketing = <<>>
    /\ Total(filtered_business, "new_customers") > 0
    /\ kpis.blended_cac = Zero

\* C5 as stated: on a non-empty marketing table overall_roas is revenue over
\* spend when the total spend is not 0 and 0 when it is 0, and blended_cac
\* is spend over new customers when their total is not 0 and 0 when it is 0.
C5_GuardsAreNonZeroTests ==
    (KpisDone /\ filtered_marketing # <<>>) =>
        LET spend == Total(filtered_marketing, "spend")
            revenue == Total(filtered_marketing, "attributed_revenue")
            customers == Total(filtered_business, "new_customers")
        IN  /\ kpis.overall_roas = IF spend # 0 THEN Num(revenue, spend) ELSE Zero
            /\ kpis.blended_cac = IF customers # 0 THEN Num(spend, customers) ELSE Zero

\* C5 as amended: on a non-empty marketing table overall_roas is revenue
\* over spend when the total spend is greater than 0 and 0 otherwise, and
\* blended_cac is spend over new customers when their total is greater than
\* 0 and 0 otherwise; both are finite numbers.
C5_GuardsArePositiveTests ==
    (KpisDone /\ filtered_marketing # <<>>) =>
        LET spend == Total(filtered_marketing, "spend")
            revenue == Total(filtered_marketing, "attributed_revenue")
            customers == Total(filtered_business, "new_customers")
        IN  /\ kpis.total_spend = spend
            /\ kpis.total_attributed_revenue = revenue
            /\ kpis.overall_roas = IF spend > 0 THEN Num(revenue, spend) ELSE Zero
            /\ kpis.blended_cac = IF customers > 0 THEN Num(spend, customers) ELSE Zero
            /\ IsFinite(kpis.overall_roas) /\ IsFinite(kpis.blended_cac)

C5_Witness ==
    /\ KpisDone /\ Len(filtered_marketing) = 2
    /\ kpis.total_spend = 200 /\ kpis.overall_roas = Num(3, 2)
    /\ Len(filtered_business) = 2 /\ kpis.blended_cac = Num(20, 1)

\* the indexes of the rows of one platform
RowsOf(p) == {i \in DOMAIN filtered_marketing : filtered_marketing[i].platform = p}

\* the summary row of platform p holds the sums over the rows of p and the
\* ratios of those sums
SummaryOf(row, p) ==
    LET spend == TotalOver(filtered_marketing, "spend", RowsOf(p))
        revenue == TotalOver(filtered_marketing, "attributed_revenue", RowsOf(p))
        clicks == TotalOver(filtered_marketing, "clicks", RowsOf(p))
        impression == TotalOver(filtered_marketing, "impression", RowsOf(p))
    IN  /\ row.platform = p
        /\ row.spend = spend /\ row.attributed_revenue = revenue
        /\ row.clicks = clicks /\ row.impression = impression
        /\ row.roas = FDiv(revenue, spend)
        /\ row.ctr = FMul(FDiv(clicks, impression), 100)

ExampleTable ==
    /\ Len(filtered_marketing) = 2
    /\ \A i \in 1..2 : filtered_marketing[i].platform = "Facebook"
    /\ filtered_marketing[1].spend = 100 /\ filtered_marketing[1].attributed_revenue = 300
    /\ filtered_marketing[1].clicks = 10 /\ filtered_marketing[1].impression = 1000
    /\ filtered_marketing[2].spend = 0 /\ filtered_marketing[2].attributed_revenue = 0
    /\ filtered_marketing[2].clicks = 0 /\ filtered_marketing[2].impression = 0
ExampleSummary ==
    /\ Len(stats) = 1
    /\ stats[1].spend = 100 /\ stats[1].attributed_revenue = 300
    /\ stats[1].roas = Num(3, 1) /\ stats[1].ctr = Num(1, 1)

\* C6: the channel summary of a non-empty table has exactly one row per
\* distinct platform, holding the sums over that platform's rows and roas
\* and ctr computed from those sums; the two-row example gives spend 100,
\* revenue 300, roas 3.0, ctr 1.0.
C6_OneSummaryRowPerPlatform ==
    (ChartDone /\ filtered_marketing # <<>>) =>
        /\ \A p \in Unique(filtered_marketing, "platform") :
              \E g \in DOMAIN stats :
                  /\ SummaryOf(stats[g], p)
                  /\ \A h \in DOMAIN stats : stats[h].platform = p => h = g
        /\ \A g \in DOMAIN stats :
              stats[g].platform \in Unique(filtered_marketing, "platform")
        /\ ExampleTable => ExampleSummary

C6_Witness == ChartDone /\ ExampleTable /\ ExampleSummary

\* the keys of a grouped table, in its row order
KeysOf(table, col) == [g \in DOMAIN table |-> table[g][col]]

Ascending(keys, col) ==
    \A g, h \in DOMAIN keys : g < h => SortKey(col, keys[g]) < SortKey(col, keys[h])

\* C7 as stated: the rows of every grouped table are in the order in which
\* the keys first appear in the marketing table.
C7_GroupsInFirstSeenOrder ==
    /\ ChartDone => KeysOf(stats, "platform") = FirstSeen(filtered_marketing, "platform", {})
    /\ pc \in {"spend_charted", "trended"} =>
          KeysOf(spend_by_platform, "platform") = FirstSeen(filtered_marketing, "platform", {})
    /\ pc = "trended" =>
          KeysOf(daily_data, "date") = FirstSeen(filtered_marketing, "date", {})

\* C7 as amended: the rows of every grouped table are in ascending order of
\* the group key (platform names in string order, dates in calendar order),
\* one row per distinct key, wherever the keys first appear in the table.
C7_GroupsInSortedOrder ==
    /\ ChartDone =>
          /\ Ascending(KeysOf(stats, "platform"), "platform")
          /\ Range(KeysOf(stats, "platform")) = Unique(filtered_marketing, "platform")
    /\ pc \in {"spend_charted", "trended"} =>
          /\ Ascending(KeysOf(spend_by_platform, "platform"), "platform")
          /\ Range(KeysOf(spend_by_platform, "platform"))
                = Unique(filtered_marketing, "platform")
    /\ pc = "trended" =>
          /\ Ascending(KeysOf(daily_data, "date"), "date")
          /\ Range(KeysOf(daily_data, "date")) = Unique(filtered_marketing, "date")

C7_Witness ==
    /\ pc = "trended"
    /\ Len(filtered_marketing) = 2
    /\ filtered_marketing[1].date = 18 /\ filtered_marketing[2].date = 17
    /\ KeysOf(daily_data, "date") = <<17, 18>>

\* C9: the spend column of the channel summary adds up to the total_spend
\* that calculate_kpis reports for the same table.
C9_SummarySpendAddsUp ==
    ChartDone => Total(stats, "spend") = kpis.total_spend

C9_Witness ==
    /\ ChartDone /\ Len(stats) = 2 /\ Len(filtered_marketing) = 2
    /\ kpis.total_spend = 200 /\ Total(stats, "spend") = 200

\* C10: every row of the channel summary has a finite roas and ctr, also
\* for a platform whose rows sum to spend = 0 or impression = 0.
C10_SummaryRatiosFinite ==
    ChartDone => \A g \in DOMAIN stats : IsFinite(stats[g].roas) /\ IsFinite(stats[g].ctr)

====
